---- MODULE Spec2Model ----
(***************************************************************************)
(* Model of the deployment-gating QA runner (runner/qa_runner.py).         *)
(*                                                                         *)
(* One run of main() is a sequence of steps: load the two configuration    *)
(* documents, wait for the health endpoint, run the probe matrix,          *)
(* classify the outcome, write the report, update the last-good state      *)
(* file.  Spec is one run over every configuration; SpecLive adds the     *)
(* fairness of a sequential process; SpecSeq lets runs follow each other;  *)
(* SpecRace has two runner processes inside update_last_good; SpecClassify *)
(* and SpecProbe drive classify_exit_code and run_http_test over their     *)
(* input spaces.                                                           *)
(***************************************************************************)
EXTENDS Integers, Sequences, FiniteSets, TLC

VARIABLES
    pc,               \* position of the run inside main()
    runs,             \* number of runs started so far
    clock,            \* wall clock, in seconds
    module_name,      \* args.module_name
    dry_run,          \* args.dry_run
    serviceintent,    \* what load_yaml gave for --serviceintent
    test_matrix,      \* what load_yaml gave for --test-matrix
    config_error,
    base_url,
    image_tag,
    qa_tag,           \* os.environ.get("QA_TAG"), once main() has read it
    tests,
    timeout_seconds,
    interval_seconds,
    health_ok,
    health_error,
    results,
    test_errors,
    io_errors,
    exit_code,
    deadline,         \* wait_for_healthy: absolute deadline
    last_error,       \* wait_for_healthy: error of the most recent poll
    polls,            \* health GET requests issued by the current run
    answered_at,      \* clock at which a health poll was answered with 200
    probes,           \* probe requests issued by the current run
    report_path,      \* path returned by write_report in the current run
    data,             \* update_last_good: the document read from the file
    state_file,       \* the last-good state file
    reports,          \* the report files, by path
    peer,             \* a second runner process inside update_last_good
    answers,          \* what the target did on each request of the current run
    prev              \* what the previous run was given and what it produced

vars == << pc, runs, clock, module_name, dry_run, serviceintent,
           test_matrix, config_error, base_url,
           image_tag, tests, timeout_seconds, interval_seconds, health_ok,
           health_error, results, test_errors, io_errors, exit_code, deadline,
           last_error, polls, answered_at, probes, report_path, data,
           state_file, reports, peer, qa_tag, answers, prev >>

----------------------------------------------------------------------------
(* Bounds of the model *)

MaxRuns  == 2     \* runs of main() in one behaviour
MaxTests == 2     \* longest test matrix
MaxDelay == 1     \* longest idle time, in seconds, between two runs

(* Program constants *)

DefaultHealthTimeout  == 60
DefaultHealthInterval == 2
DefaultExpectStatus   == 200
MinSleep              == 1
HealthRequestTimeout  == 3

----------------------------------------------------------------------------
(* Python values *)

\* Optional values: None, or a one-element tuple holding the value.
None    == << >>
Some(v) == << v >>

\* A dict is a function whose domain is the set of its keys.
EmptyDict == [k \in {} |-> k]

\* dict.get(key, default)
Get(d, k, default) == IF k \in DOMAIN d THEN d[k] ELSE default

\* d[key] = value
DictSet(d, k, v) == [x \in (DOMAIN d) \cup {k} |-> IF x = k THEN v ELSE d[x]]

\* A value loaded by yaml.safe_load: null (an empty document) or a mapping.
YNull   == [type |-> "null"]
YMap(d) == [type |-> "map", val |-> d]

\* The sleep between two polls capped at one second instead of floored.
SleepAtMostOne(a, b) == IF a <= b THEN a ELSE b

\* The sleep between two polls without the one-second floor.
SleepWithoutFloor(a, b) == a

\* max(a, b)
Max(a, b) == IF a >= b THEN a ELSE b

----------------------------------------------------------------------------
(* Inputs: configuration documents *)

TargetFull == [base_url |-> "http://svc/", health_endpoint |-> "/healthz",
               health_timeout_seconds |-> 4,
               health_check_interval_seconds |-> 2]
TargetFast == [base_url |-> "http://svc", health_timeout_seconds |-> 2,
               health_check_interval_seconds |-> 0]

\* What load_yaml(args.serviceintent) gives: an exception, or a document.
LoadError == [ok |-> FALSE]
NotLoaded == [ok |-> FALSE, doc |-> YNull]
Loaded(y) == [ok |-> TRUE, doc |-> y]

ServiceIntents ==
    { LoadError,
      Loaded(YNull),
      Loaded(YMap(EmptyDict)),
      Loaded(YMap([target |-> YNull])),
      Loaded(YMap([target |-> YMap([base_url |-> ""]),
                   deployment |-> YMap([base_image |-> "img"])])),
      Loaded(YMap([target |-> YMap(TargetFull),
                   deployment |-> YMap([base_image |-> "img"])])),
      Loaded(YMap([target |-> YMap(TargetFast)])) }

\* The i-th probe definition of a test matrix.
TestAt(i) ==
    IF i % 2 = 1
    THEN [name |-> "root", path |-> "/", expect_status |-> 200]
    ELSE [path |-> "/slow", method |-> "get", max_latency_ms |-> 10]

Matrix(n) == [i \in 1..n |-> TestAt(i)]

TestMatrices ==
    { LoadError, Loaded(YNull), Loaded(YMap(EmptyDict)) }
    \cup { Loaded(YMap([tests |-> Matrix(n)])) : n \in 1..MaxTests }

ModuleNames == { "A", "B" }
QaTags      == { None, Some(""), Some("v1") }

(* Inputs: what the target answers *)

Response(code, ms, secs) ==
    [kind |-> "resp", status_code |-> code, elapsed_ms |-> ms, secs |-> secs]
Failure(secs) ==
    [kind |-> "exc", text |-> "connection failed", secs |-> secs]

\* Answers to a health poll (requests.get with timeout 3.0).
HealthAnswers ==
    { Response(200, 5, 0), Response(200, 2000, 2), Response(503, 5, 0),
      Failure(0), Failure(HealthRequestTimeout) }

\* Answers to a probe request.
ProbeAnswers ==
    { Response(200, 10, 0), Response(200, 11, 0), Response(500, 10, 0),
      Failure(0) }

----------------------------------------------------------------------------
(* Pure functions of the runner *)

\* Python truthiness of an optional string ("not base_url", "if qa_tag").
Truthy(o) == o # None /\ o[1] # ""

\* run_http_test with an exclusive latency bound.
RunHttpTestStrictLatency(test, answer) ==
    LET name           == Get(test, "name", "unnamed")
        path           == Get(test, "path", "/")
        expect_status  == Get(test, "expect_status", DefaultExpectStatus)
        max_latency_ms == IF "max_latency_ms" \in DOMAIN test
                          THEN Some(test["max_latency_ms"]) ELSE None
    IN  IF answer.kind = "exc"
        THEN [name |-> name, path |-> path, status |-> "io_error",
              error |-> answer.text, latency_ms |-> None, http_status |-> None]
        ELSE LET latency_ms == answer.elapsed_ms
                 status_ok  == answer.status_code = expect_status
                 latency_ok == IF max_latency_ms # None
                               THEN latency_ms < max_latency_ms[1]
                               ELSE TRUE
             IN  [name |-> name, path |-> path,
                  status |-> IF status_ok /\ latency_ok THEN "pass" ELSE "fail",
                  http_status |-> Some(answer.status_code),
                  latency_ms |-> Some(latency_ms)]

\* run_http_test: the result of one probe, given what the request did.
RunHttpTest(test, answer) ==
    LET name           == Get(test, "name", "unnamed")
        path           == Get(test, "path", "/")
        expect_status  == Get(test, "expect_status", DefaultExpectStatus)
        max_latency_ms == IF "max_latency_ms" \in DOMAIN test
                          THEN Some(test["max_latency_ms"]) ELSE None
    IN  IF answer.kind = "exc"
        THEN [name |-> name, path |-> path, status |-> "io_error",
              error |-> answer.text, latency_ms |-> None, http_status |-> None]
        ELSE LET latency_ms == answer.elapsed_ms
                 status_ok  == answer.status_code = expect_status
                 latency_ok == IF max_latency_ms # None
                               THEN latency_ms <= max_latency_ms[1]
                               ELSE TRUE
             IN  [name |-> name, path |-> path,
                  status |-> IF status_ok /\ latency_ok THEN "pass" ELSE "fail",
                  http_status |-> Some(answer.status_code),
                  latency_ms |-> Some(latency_ms)]

\* classify_exit_code with the health test before the config test.
ClassifyHealthFirst(cfg_err, h_ok, t_errors, i_errors) ==
    IF ~h_ok THEN 3
    ELSE IF cfg_err THEN 1
    ELSE IF i_errors > 0 THEN 3
    ELSE IF t_errors > 0 THEN 3
    ELSE 0

\* classify_exit_code
ClassifyExitCode(cfg_err, h_ok, t_errors, i_errors) ==
    IF cfg_err THEN 1
    ELSE IF ~h_ok THEN 3
    ELSE IF i_errors > 0 THEN 3
    ELSE IF t_errors > 0 THEN 3
    ELSE 0

\* The candidate tag without QA_TAG.
ImageTagAlwaysLatest(base_image, qa) == base_image \o ":latest"

\* The resolved candidate tag: base_image joined with QA_TAG or "latest".
ImageTag(base_image, qa) ==
    IF Truthy(qa) THEN base_image \o ":" \o qa[1]
    ELSE base_image \o ":latest"

(* The state file *)

MissingFile   == [kind |-> "missing"]
CorruptFile   == [kind |-> "corrupt"]
JsonFile(doc) == [kind |-> "json", doc |-> doc]

\* update_last_good starting from a skeleton document instead of an empty
\* one when the file is missing or corrupt.
LoadStateFileWithSkeleton(f) ==
    IF f.kind = "json" THEN f.doc ELSE [schema |-> 1]

\* update_last_good, reading: a missing or corrupt file is an empty document.
LoadStateFile(f) == IF f.kind = "json" THEN f.doc ELSE EmptyDict

\* update_last_good replacing the modules instead of merging into them.
SetLastGoodReplacing(doc, module, tag, now) ==
    DictSet(doc, "modules",
            DictSet(EmptyDict, module, [image_tag |-> tag, updated_at |-> now]))

\* update_last_good merging into the file as it is when it writes.
SetLastGoodRereading(doc, module, tag, now) ==
    LET current == LoadStateFile(state_file)
        modules == Get(current, "modules", EmptyDict)
        entry   == [image_tag |-> tag, updated_at |-> now]
    IN  DictSet(current, "modules", DictSet(modules, module, entry))

\* update_last_good, modifying: set the module's entry in the document read.
SetLastGood(doc, module, tag, now) ==
    LET modules == Get(doc, "modules", EmptyDict)
        entry   == [image_tag |-> tag, updated_at |-> now]
    IN  DictSet(doc, "modules", DictSet(modules, module, entry))

(* The report files *)

\* write_report naming the file by the second alone.
ReportPathBySecond(module, now) == << "", now >>

\* write_report: the path is made of the module name and the second.
ReportPath(module, now) == << module, now >>

ReportPayload(module, res, h_ok, h_err) ==
    [module |-> module, health_ok |-> h_ok, health_error |-> h_err,
     results |-> res]

----------------------------------------------------------------------------
(* main(): loading the configuration *)

\* An uncaught exception in main(), with what had been assigned before it.
Crash(cfg_err, url, tag) ==
    [crash |-> TRUE, config_error |-> cfg_err, base_url |-> url,
     image_tag |-> tag]

\* The configuration main() derives from the two load results and QA_TAG,
\* or the uncaught exception that ends the process.
Configure(si, tm, qa) ==
    IF ~si.ok \/ ~tm.ok
    THEN [crash |-> FALSE, config_error |-> TRUE,
          base_url |-> Some("http://invalid"), image_tag |-> "unknown",
          tests |-> << >>, timeout |-> 0, interval |-> 0]
    ELSE IF si.doc.type # "map" THEN Crash(FALSE, None, "")
    ELSE LET target_cfg == Get(si.doc.val, "target", YMap(EmptyDict)) IN
         IF target_cfg.type # "map" THEN Crash(FALSE, None, "")
    ELSE LET url == IF "base_url" \in DOMAIN target_cfg.val
                    THEN Some(target_cfg.val["base_url"]) ELSE None
             deployment_cfg == Get(si.doc.val, "deployment", YMap(EmptyDict))
         IN
         IF deployment_cfg.type # "map" THEN Crash(~Truthy(url), url, "")
    ELSE LET tag == ImageTag(Get(deployment_cfg.val, "base_image", "unknown"),
                             qa)
         IN
         IF tm.doc.type # "map" THEN Crash(~Truthy(url), url, tag)
    ELSE [crash |-> FALSE, config_error |-> ~Truthy(url), base_url |-> url,
          image_tag |-> tag,
          tests |-> Get(tm.doc.val, "tests", << >>),
          timeout |-> Get(target_cfg.val, "health_timeout_seconds",
                          DefaultHealthTimeout),
          interval |-> Get(target_cfg.val, "health_check_interval_seconds",
                           DefaultHealthInterval)]

\* The report written whether or not --dry-run is set.
WritesReportAlways(dry) == TRUE

\* The persistence steps follow the classification unless --dry-run is set.
WritesReport(dry) == ~dry

\* The state update without the test of the exit code.
UpdatesLastGoodAnyExit(code, cfg_err) == ~cfg_err

\* update_last_good is called after the report only for a passing run.
UpdatesLastGood(code, cfg_err) == code = Some(0) /\ ~cfg_err

\* The probes run whatever the health wait returned.
AfterHealthIgnoringOutcome(ok, ts) ==
    IF ts # << >> THEN "probe" ELSE "classify"

\* After the health wait: the probes run only if it returned ok.
AfterHealth(ok, ts) == IF ok /\ ts # << >> THEN "probe" ELSE "classify"

\* The loop over the matrix taking the tests last to first.
NextTestReversed(ts, res) == ts[Len(ts) - Len(res)]

\* The loop over the matrix takes the tests in declaration order.
NextTest(ts, res) == ts[Len(res) + 1]

\* The text wait_for_healthy records for a poll that was not answered 200.
PollError(answer) ==
    IF answer.kind = "exc" THEN answer.text
    ELSE "status=" \o ToString(answer.status_code) \o ", body=not ready"

\* The loop condition letting a poll start at the deadline itself.
AtOrBeforeDeadline(now, limit) == now <= limit

\* wait_for_healthy: the loop condition, a poll starts only before the
\* deadline.
BeforeDeadline(now, limit) == now < limit

\* The probe loop counts a result once: an io_error in io_errors, any other
\* result that is not a pass in test_errors.
IsIoError(status) == status = "io_error"

\* The probe loop counting every result that is not a pass as a test error.
IsTestErrorAnyNonPass(status) == status # "pass"

IsTestError(status) == ~IsIoError(status) /\ status # "pass"

\* The state update entered before the report is written.
AfterClassifyUpdatingFirst(dry) ==
    IF WritesReport(dry) THEN "update_read" ELSE "done"

\* After the classification: the report is written unless --dry-run is set.
AfterClassify(dry) == IF WritesReport(dry) THEN "report" ELSE "done"

\* main() reads QA_TAG once both documents are loaded and the target and
\* deployment sections have been read: the image tag is then assigned.
ReadsQaTag(c) == c.image_tag \notin { "", "unknown" }

----------------------------------------------------------------------------
(* State *)

NoPeer == [pc |-> "none", module_name |-> "", image_tag |-> "",
           data |-> EmptyDict]

\* No run has ended yet.
NoRun == [ended |-> FALSE]

\* What the run that has ended was given (arguments, documents, QA_TAG,
\* the target's answers) and what it produced.
RunSummary ==
    [ended |-> TRUE, module_name |-> module_name, dry_run |-> dry_run,
     serviceintent |-> serviceintent, test_matrix |-> test_matrix,
     qa_tag |-> qa_tag, answers |-> answers, results |-> results,
     test_errors |-> test_errors, io_errors |-> io_errors,
     health_ok |-> health_ok, exit_code |-> exit_code, pc |-> pc]

InitialStateFiles ==
    { MissingFile, CorruptFile,
      JsonFile([schema |-> 1,
                modules |-> [B |-> [image_tag |-> "img:v0",
                                    updated_at |-> 0]]]) }

\* The locals of main() before the configuration is loaded.
FreshRun ==
    /\ module_name = ""
    /\ dry_run = FALSE
    /\ serviceintent = NotLoaded
    /\ test_matrix = NotLoaded
    /\ config_error = FALSE
    /\ base_url = None
    /\ image_tag = ""
    /\ tests = << >>
    /\ timeout_seconds = 0
    /\ interval_seconds = 0
    /\ health_ok = TRUE
    /\ health_error = None
    /\ results = << >>
    /\ test_errors = 0
    /\ io_errors = 0
    /\ exit_code = None
    /\ deadline = 0
    /\ last_error = None
    /\ polls = 0
    /\ answered_at = None
    /\ probes = 0
    /\ report_path = None
    /\ data = EmptyDict
    /\ qa_tag = None
    /\ answers = << >>

Init ==
    /\ pc = "start"
    /\ runs = 1
    /\ clock = 0
    /\ FreshRun
    /\ state_file \in InitialStateFiles
    /\ reports = EmptyDict
    /\ peer = NoPeer
    /\ prev = NoRun

----------------------------------------------------------------------------
(* Steps of one run of main() *)

\* Parse the arguments, load both documents and derive the configuration;
\* without a config error, enter wait_for_healthy (the deadline is set).
LoadConfig(sis, tms) ==
    /\ pc = "start"
    /\ \E m \in ModuleNames, dry \in BOOLEAN, si \in sis, tm \in tms,
          qa \in QaTags :
          LET c == Configure(si, tm, qa) IN
          /\ module_name' = m
          /\ qa_tag' = IF ReadsQaTag(c) THEN qa ELSE None
          /\ dry_run' = dry
          /\ serviceintent' = si
          /\ test_matrix' = IF si.ok THEN tm ELSE NotLoaded
          /\ config_error' = c.config_error
          /\ base_url' = c.base_url
          /\ image_tag' = c.image_tag
          /\ IF c.crash
             THEN /\ pc' = "crashed"
                  /\ UNCHANGED << tests, timeout_seconds, interval_seconds,
                                  deadline >>
             ELSE /\ tests' = c.tests
                  /\ timeout_seconds' = c.timeout
                  /\ interval_seconds' = c.interval
                  /\ IF c.config_error
                     THEN pc' = "classify" /\ UNCHANGED deadline
                     ELSE pc' = "health" /\ deadline' = clock + c.timeout
    /\ UNCHANGED << runs, clock, health_ok, health_error, results,
                    test_errors, io_errors, exit_code, last_error, polls,
                    answered_at, probes, report_path, data, state_file,
                    reports, peer, answers, prev >>

\* wait_for_healthy: one iteration of the polling loop.
HealthPoll(offered) ==
    /\ pc = "health"
    /\ BeforeDeadline(clock, deadline)
    /\ polls' = polls + 1
    /\ \E a \in offered :
          /\ answers' = Append(answers, a)
          /\ IF a.kind = "resp" /\ a.status_code = 200
             THEN /\ clock' = clock + a.secs
                  /\ answered_at' = Some(clock + a.secs)
                  /\ health_ok' = TRUE
                  /\ health_error' = None
                  /\ pc' = AfterHealth(TRUE, tests)
                  /\ UNCHANGED last_error
             ELSE /\ last_error' = Some(PollError(a))
                  /\ clock' = clock + a.secs
                                + Max(interval_seconds, MinSleep)
                  /\ UNCHANGED << answered_at, health_ok, health_error, pc >>
    /\ UNCHANGED << runs, module_name, dry_run, serviceintent,
                    test_matrix, config_error, base_url,
                    image_tag, tests, timeout_seconds, interval_seconds,
                    results, test_errors, io_errors, exit_code, deadline,
                    probes, report_path, data, state_file, reports, peer,
                    qa_tag, prev >>

\* wait_for_healthy: the deadline has passed, the tests are skipped.
HealthTimeout ==
    /\ pc = "health"
    /\ ~BeforeDeadline(clock, deadline)
    /\ health_ok' = FALSE
    /\ health_error' = last_error
    /\ pc' = AfterHealth(FALSE, tests)
    /\ UNCHANGED << runs, clock, module_name, dry_run, serviceintent,
                    test_matrix, config_error, base_url,
                    image_tag, tests, timeout_seconds, interval_seconds,
                    results, test_errors, io_errors, exit_code, deadline,
                    last_error, polls, answered_at, probes, report_path, data,
                    state_file, reports, peer, qa_tag, answers, prev >>

\* One iteration of the loop over the test matrix.
RunProbe(offered) ==
    /\ pc = "probe"
    /\ \E a \in offered :
          LET r == RunHttpTest(NextTest(tests, results), a) IN
          /\ answers' = Append(answers, a)
          /\ results' = Append(results, r)
          /\ io_errors' = IF IsIoError(r.status) THEN io_errors + 1
                          ELSE io_errors
          /\ test_errors' = IF IsTestError(r.status)
                            THEN test_errors + 1 ELSE test_errors
    /\ probes' = probes + 1
    /\ pc' = IF Len(results) + 1 < Len(tests) THEN "probe" ELSE "classify"
    /\ UNCHANGED << runs, clock, module_name, dry_run, serviceintent,
                    test_matrix, config_error, base_url,
                    image_tag, tests, timeout_seconds, interval_seconds,
                    health_ok, health_error, exit_code, deadline, last_error,
                    polls, answered_at, report_path, data, state_file,
                    reports, peer, qa_tag, prev >>

\* The exit code is decided; a dry run returns it at once.
Classify ==
    /\ pc = "classify"
    /\ exit_code' = Some(ClassifyExitCode(config_error, health_ok,
                                          test_errors, io_errors))
    /\ pc' = AfterClassify(dry_run)
    /\ UNCHANGED << runs, clock, module_name, dry_run, serviceintent,
                    test_matrix, config_error, base_url,
                    image_tag, tests, timeout_seconds, interval_seconds,
                    health_ok, health_error, results, test_errors, io_errors,
                    deadline, last_error, polls, answered_at, probes,
                    report_path, data, state_file, reports, peer, qa_tag,
                    answers, prev >>

\* A report write that raises ends the process: nothing catches it.
WriteReportFails ==
    /\ pc = "report"
    /\ pc' = "io_failed"
    /\ UNCHANGED << runs, clock, module_name, dry_run, serviceintent,
                    test_matrix, config_error, base_url,
                    image_tag, tests, timeout_seconds, interval_seconds,
                    health_ok, health_error, results, test_errors, io_errors,
                    exit_code, deadline, last_error, polls, answered_at,
                    probes, report_path, data, state_file, reports, peer,
                    qa_tag, answers, prev >>

\* write_report, then the decision to update the state file.
WriteReport ==
    /\ pc = "report"
    /\ LET path == ReportPath(module_name, clock) IN
          /\ reports' = DictSet(reports, path,
                                ReportPayload(module_name, results, health_ok,
                                              health_error))
          /\ report_path' = Some(path)
    /\ pc' = IF UpdatesLastGood(exit_code, config_error)
             THEN "update_read" ELSE "done"
    /\ UNCHANGED << runs, clock, module_name, dry_run, serviceintent,
                    test_matrix, config_error, base_url,
                    image_tag, tests, timeout_seconds, interval_seconds,
                    health_ok, health_error, results, test_errors, io_errors,
                    exit_code, deadline, last_error, polls, answered_at,
                    probes, data, state_file >>
    /\ UNCHANGED << peer, qa_tag, answers, prev >>

\* update_last_good: read the state file.
UpdateLastGoodRead ==
    /\ pc = "update_read"
    /\ data' = LoadStateFile(state_file)
    /\ pc' = "update_write"
    /\ UNCHANGED << runs, clock, module_name, dry_run, serviceintent,
                    test_matrix, config_error, base_url,
                    image_tag, tests, timeout_seconds, interval_seconds,
                    health_ok, health_error, results, test_errors, io_errors,
                    exit_code, deadline, last_error, polls, answered_at,
                    probes, report_path, state_file, reports, peer, qa_tag,
                    answers, prev >>

\* update_last_good: set the module's entry and write the document back.
UpdateLastGoodWrite ==
    /\ pc = "update_write"
    /\ state_file' = JsonFile(SetLastGood(data, module_name, image_tag, clock))
    /\ data' = SetLastGood(data, module_name, image_tag, clock)
    /\ pc' = "done"
    /\ UNCHANGED << runs, clock, module_name, dry_run, serviceintent,
                    test_matrix, config_error, base_url,
                    image_tag, tests, timeout_seconds, interval_seconds,
                    health_ok, health_error, results, test_errors, io_errors,
                    exit_code, deadline, last_error, polls, answered_at,
                    probes, report_path, reports, peer, qa_tag, answers,
                    prev >>

Next ==
    \/ LoadConfig(ServiceIntents, TestMatrices)
    \/ HealthPoll(HealthAnswers)
    \/ HealthTimeout
    \/ RunProbe(ProbeAnswers)
    \/ Classify
    \/ WriteReport
    \/ WriteReportFails
    \/ UpdateLastGoodRead
    \/ UpdateLastGoodWrite

Spec == Init /\ [][Next]_vars

\* A run is one sequential process: whenever it has a next step, it takes it
\* (the clock advances, every request returns or fails within its timeout).
SpecLive == Init /\ [][Next]_vars /\ WF_vars(Next)

----------------------------------------------------------------------------
(* Runs in sequence: the runner is started again after a run has ended *)

\* The process has ended (returned or crashed); a new one starts later.
NextRun ==
    /\ pc \in { "done", "crashed", "io_failed" }
    /\ runs < MaxRuns
    /\ runs' = runs + 1
    /\ \E delay \in 0..MaxDelay : clock' = clock + delay
    /\ pc' = "start"
    /\ module_name' = ""
    /\ dry_run' = FALSE
    /\ serviceintent' = NotLoaded
    /\ test_matrix' = NotLoaded
    /\ config_error' = FALSE
    /\ base_url' = None
    /\ image_tag' = ""
    /\ tests' = << >>
    /\ timeout_seconds' = 0
    /\ interval_seconds' = 0
    /\ health_ok' = TRUE
    /\ health_error' = None
    /\ results' = << >>
    /\ test_errors' = 0
    /\ io_errors' = 0
    /\ exit_code' = None
    /\ deadline' = 0
    /\ last_error' = None
    /\ polls' = 0
    /\ answered_at' = None
    /\ probes' = 0
    /\ report_path' = None
    /\ data' = EmptyDict
    /\ qa_tag' = None
    /\ answers' = << >>
    /\ prev' = RunSummary
    /\ UNCHANGED << state_file, reports, peer >>

SeqServiceIntents ==
    { Loaded(YMap(EmptyDict)),
      Loaded(YMap([target |-> YMap(TargetFast)])) }

SeqTestMatrices == { Loaded(YMap([tests |-> Matrix(1)])) }

SeqHealthAnswers == { Response(200, 5, 0), Failure(HealthRequestTimeout) }

SeqProbeAnswers == { Response(200, 10, 0), Response(500, 10, 0) }

NextSeq ==
    \/ NextRun
    \/ LoadConfig(SeqServiceIntents, SeqTestMatrices)
    \/ HealthPoll(SeqHealthAnswers)
    \/ HealthTimeout
    \/ RunProbe(SeqProbeAnswers)
    \/ Classify
    \/ WriteReport
    \/ WriteReportFails
    \/ UpdateLastGoodRead
    \/ UpdateLastGoodWrite

SpecSeq == Init /\ [][NextSeq]_vars

----------------------------------------------------------------------------
(* Two runner processes inside update_last_good on the same state file *)

\* The second process reads the state file.
PeerRead ==
    /\ peer.pc = "update_read"
    /\ peer' = [peer EXCEPT !.data = LoadStateFile(state_file),
                            !.pc = "update_write"]
    /\ UNCHANGED << pc, runs, clock, module_name, dry_run, serviceintent,
                    test_matrix, config_error, base_url, image_tag, tests,
                    timeout_seconds, interval_seconds, health_ok, health_error,
                    results, test_errors, io_errors, exit_code, deadline,
                    last_error, polls, answered_at, probes, report_path, data,
                    state_file, reports, qa_tag, answers, prev >>

\* The second process writes its document back.
PeerWrite ==
    /\ peer.pc = "update_write"
    /\ state_file' = JsonFile(SetLastGood(peer.data, peer.module_name,
                                          peer.image_tag, clock))
    /\ peer' = [peer EXCEPT !.data = SetLastGood(peer.data, peer.module_name,
                                                 peer.image_tag, clock),
                            !.pc = "done"]
    /\ UNCHANGED << pc, runs, clock, module_name, dry_run, serviceintent,
                    test_matrix, config_error, base_url, image_tag, tests,
                    timeout_seconds, interval_seconds, health_ok, health_error,
                    results, test_errors, io_errors, exit_code, deadline,
                    last_error, polls, answered_at, probes, report_path, data,
                    reports, qa_tag, answers, prev >>

PassingTags == { ImageTag("unknown", qa) : qa \in QaTags }

\* Both processes have passed (fast target, empty matrix, first poll
\* answered 200), have written their reports and enter update_last_good.
InitRace ==
    /\ pc = "update_read"
    /\ runs = 1
    /\ clock = 0
    /\ module_name \in ModuleNames
    /\ dry_run = FALSE
    /\ serviceintent = Loaded(YMap([target |-> YMap(TargetFast)]))
    /\ test_matrix = Loaded(YMap(EmptyDict))
    /\ config_error = FALSE
    /\ base_url = Some(TargetFast.base_url)
    /\ qa_tag \in QaTags
    /\ image_tag = ImageTag("unknown", qa_tag)
    /\ answers = << Response(200, 5, 0) >>
    /\ prev = NoRun
    /\ tests = << >>
    /\ timeout_seconds = TargetFast.health_timeout_seconds
    /\ interval_seconds = TargetFast.health_check_interval_seconds
    /\ health_ok = TRUE
    /\ health_error = None
    /\ results = << >>
    /\ test_errors = 0
    /\ io_errors = 0
    /\ exit_code = Some(0)
    /\ deadline = TargetFast.health_timeout_seconds
    /\ last_error = None
    /\ polls = 1
    /\ answered_at = Some(0)
    /\ probes = 0
    /\ report_path = Some(ReportPath(module_name, 0))
    /\ data = EmptyDict
    /\ state_file \in InitialStateFiles
    /\ \E pm \in ModuleNames, ptag \in PassingTags :
          /\ peer = [pc |-> "update_read", module_name |-> pm,
                     image_tag |-> ptag, data |-> EmptyDict]
          /\ reports =
                DictSet(DictSet(EmptyDict, ReportPath(pm, 0),
                                ReportPayload(pm, << >>, TRUE, None)),
                        ReportPath(module_name, 0),
                        ReportPayload(module_name, << >>, TRUE, None))

NextRace ==
    \/ UpdateLastGoodRead
    \/ UpdateLastGoodWrite
    \/ PeerRead
    \/ PeerWrite

SpecRace == InitRace /\ [][NextRace]_vars

----------------------------------------------------------------------------
(* classify_exit_code over its whole input space *)

InitClassify ==
    /\ pc = "classify"
    /\ runs = 1
    /\ clock = 0
    /\ module_name \in ModuleNames
    /\ dry_run \in BOOLEAN
    /\ serviceintent = NotLoaded
    /\ test_matrix = NotLoaded
    /\ config_error \in BOOLEAN
    /\ base_url = None
    /\ image_tag = ""
    /\ tests = << >>
    /\ timeout_seconds = 0
    /\ interval_seconds = 0
    /\ health_ok \in BOOLEAN
    /\ health_error = None
    /\ results = << >>
    /\ test_errors \in 0..MaxTests
    /\ io_errors \in 0..MaxTests
    /\ exit_code = None
    /\ deadline = 0
    /\ last_error = None
    /\ polls = 0
    /\ answered_at = None
    /\ probes = 0
    /\ report_path = None
    /\ data = EmptyDict
    /\ state_file = MissingFile
    /\ reports = EmptyDict
    /\ peer = NoPeer
    /\ qa_tag = None
    /\ answers = << >>
    /\ prev = NoRun

NextClassify == Classify

SpecClassify == InitClassify /\ [][NextClassify]_vars

----------------------------------------------------------------------------
(* run_http_test over test cases and request outcomes *)

ProbeTests ==
    { [name |-> "root", path |-> "/", expect_status |-> 200],
      [path |-> "/slow", method |-> "get", max_latency_ms |-> 10],
      [name |-> "gone", path |-> "/gone", expect_status |-> 404],
      [name |-> "both", path |-> "/", expect_status |-> 404,
       max_latency_ms |-> 10],
      [name |-> "now", max_latency_ms |-> 0] }

ProbeOutcomes ==
    { Response(200, 0, 0), Response(200, 9, 0), Response(200, 10, 0),
      Response(200, 11, 0), Response(404, 10, 0), Response(404, 11, 0),
      Response(500, 9, 0), Failure(0) }

\* The health wait has returned ok on its first poll; one test is to run.
InitProbe ==
    /\ pc = "probe"
    /\ runs = 1
    /\ clock = 0
    /\ module_name \in ModuleNames
    /\ dry_run \in BOOLEAN
    /\ serviceintent = Loaded(YMap([target |-> YMap(TargetFast)]))
    /\ \E t \in ProbeTests :
          /\ tests = << t >>
          /\ test_matrix = Loaded(YMap([tests |-> << t >>]))
    /\ config_error = FALSE
    /\ base_url = Some(TargetFast.base_url)
    /\ qa_tag = None
    /\ image_tag = ImageTag("unknown", None)
    /\ timeout_seconds = TargetFast.health_timeout_seconds
    /\ interval_seconds = TargetFast.health_check_interval_seconds
    /\ health_ok = TRUE
    /\ health_error = None
    /\ results = << >>
    /\ test_errors = 0
    /\ io_errors = 0
    /\ exit_code = None
    /\ deadline = TargetFast.health_timeout_seconds
    /\ last_error = None
    /\ polls = 1
    /\ answered_at = Some(0)
    /\ answers = << Response(200, 5, 0) >>
    /\ probes = 0
    /\ report_path = None
    /\ data = EmptyDict
    /\ state_file = MissingFile
    /\ reports = EmptyDict
    /\ peer = NoPeer
    /\ prev = NoRun

NextProbe == RunProbe(ProbeOutcomes)

SpecProbe == InitProbe /\ [][NextProbe]_vars

----------------------------------------------------------------------------
(* Properties *)

RunEnded == pc \in { "done", "crashed" }

\* The module entries a state file holds (none if missing or corrupt).
EntriesOf(f) ==
    IF f.kind = "json" THEN Get(f.doc, "modules", EmptyDict) ELSE EmptyDict

RunPassed ==
    /\ ~dry_run
    /\ ~config_error
    /\ health_ok
    /\ \A i \in 1..Len(results) : results[i].status = "pass"
    /\ io_errors = 0
    /\ test_errors = 0
    /\ exit_code = Some(0)

\* C1: update_last_good is executed only in a run that is not a dry run, has
\* no config error, was healthy and whose probes all passed (exit code 0);
\* the state file changes only there, and then only by the entry of the
\* run's module, set to the run's image tag.
StateUpdatedOnlyByPassingRun ==
    /\ [](pc \in { "update_read", "update_write" } => RunPassed)
    /\ [][state_file' # state_file =>
            /\ RunPassed
            /\ module_name \in DOMAIN EntriesOf(state_file')
            /\ EntriesOf(state_file')[module_name].image_tag = image_tag
            /\ \A m \in DOMAIN EntriesOf(state_file') \ { module_name } :
                  /\ m \in DOMAIN EntriesOf(state_file)
                  /\ EntriesOf(state_file')[m] = EntriesOf(state_file)[m]]_vars

WitnessStateUpdated ==
    /\ pc = "done"
    /\ RunPassed
    /\ Len(results) = 2
    /\ module_name \in DOMAIN EntriesOf(state_file)
    /\ EntriesOf(state_file)[module_name].image_tag = image_tag

\* The service-intent document was loaded and has no usable target.base_url.
LacksBaseUrl(si) ==
    /\ si.ok
    /\ \/ si.doc.type # "map"
       \/ LET t == Get(si.doc.val, "target", YMap(EmptyDict)) IN
             \/ t.type # "map"
             \/ "base_url" \notin DOMAIN t.val
             \/ t.val["base_url"] = ""

\* C2: a run whose service-intent document lacks target.base_url ends with
\* config_error set and exit code 1, has issued no health poll and no probe
\* request, and has not written the state file.
MissingBaseUrlIsConfigError ==
    (RunEnded /\ LacksBaseUrl(serviceintent)) =>
        /\ config_error
        /\ exit_code = Some(1)
        /\ polls = 0
        /\ probes = 0
        /\ state_file \in InitialStateFiles

\* wait_for_healthy has returned.
HealthWaitOver ==
    /\ ~config_error
    /\ pc \in { "probe", "classify", "report", "update_read", "update_write",
                 "done" }

\* C3 as stated: when the target has not answered a health poll with
\* status 200 before the deadline, the run has health_ok = false, executes
\* no probe and ends with exit code 3.
NoTimelyAnswerSkipsTests ==
    (HealthWaitOver /\ (answered_at = None \/ answered_at[1] > deadline)) =>
        /\ ~health_ok
        /\ results = << >>
        /\ pc = "done" => exit_code = Some(3)

\* C3, amended: when no health poll of the run was answered with status 200
\* (only non-200 responses and transport failures, in any mix), the run has
\* health_ok = false, executes no probe (results stays empty) and ends with
\* exit code 3.
NeverHealthySkipsTests ==
    (HealthWaitOver /\ answered_at = None) =>
        /\ ~health_ok
        /\ pc # "probe"
        /\ results = << >>
        /\ probes = 0
        /\ exit_code \in { None, Some(3) }
        /\ pc = "done" => exit_code = Some(3)

WitnessNeverHealthy ==
    /\ pc = "done"
    /\ ~config_error
    /\ answered_at = None
    /\ polls >= 2
    /\ tests # << >>
    /\ results = << >>
    /\ exit_code = Some(3)

\* C4: once the health wait has returned ok, the probes are issued one per
\* test definition in declaration order, whatever their outcome: the i-th
\* result is a result of the i-th test, and when the loop is over there are
\* as many results (and requests) as tests.
OneProbePerTestInOrder ==
    (~config_error /\ answered_at # None) =>
        /\ probes = Len(results)
        /\ Len(results) <= Len(tests)
        /\ pc = "probe" => Len(results) < Len(tests)
        /\ pc # "probe" => Len(results) = Len(tests)
        /\ \A i \in 1..Len(results) :
              \E a \in ProbeAnswers : results[i] = RunHttpTest(tests[i], a)

WitnessFullMatrixAfterFailure ==
    /\ pc = "done"
    /\ answered_at # None
    /\ Len(tests) = 2
    /\ Len(results) = 2
    /\ results[1].status = "io_error"
    /\ results[2].status = "fail"

\* C5: an update of the state file leaves the entry of every module other
\* than the updating run's module as it was (image_tag and updated_at), over
\* any sequence of runs.
OtherEntriesPreserved ==
    [][\A m \in DOMAIN EntriesOf(state_file) :
          m # module_name =>
              /\ m \in DOMAIN EntriesOf(state_file')
              /\ EntriesOf(state_file')[m] = EntriesOf(state_file)[m]]_vars

ReportIsClean(p) ==
    /\ p.health_ok
    /\ p.results # << >>
    /\ \A i \in 1..Len(p.results) : p.results[i].status = "pass"

\* Two passing runs of module A have updated a file that held B's entry.
WitnessEntryKeptOverUpdates ==
    /\ pc = "done"
    /\ runs = 2
    /\ module_name = "A"
    /\ { << "A", 0 >>, << "A", 1 >> } \subseteq DOMAIN reports
    /\ ReportIsClean(reports[<< "A", 0 >>])
    /\ ReportIsClean(reports[<< "A", 1 >>])
    /\ DOMAIN EntriesOf(state_file) = { "A", "B" }
    /\ EntriesOf(state_file)["B"] = [image_tag |-> "img:v0", updated_at |-> 0]
    /\ EntriesOf(state_file)["A"].updated_at = 1

\* The document holds module m's entry with this image tag.
HoldsUpdate(doc, m, tag) ==
    /\ m \in DOMAIN Get(doc, "modules", EmptyDict)
    /\ doc["modules"][m].image_tag = tag

\* C6: update_last_good reads and writes in two steps and takes no lock: a
\* process that read the file before the other process (updating another
\* module) wrote it writes its own snapshot back, and the file then holds
\* the last writer's entry without the other's update.
LastWriterDropsConcurrentUpdate ==
    [][/\ ( /\ pc = "update_write" /\ pc' = "done"
            /\ peer.pc = "done"
            /\ peer.module_name # module_name
            /\ ~HoldsUpdate(data, peer.module_name, peer.image_tag) )
          => /\ HoldsUpdate(state_file'.doc, module_name, image_tag)
             /\ ~HoldsUpdate(state_file'.doc, peer.module_name,
                             peer.image_tag)
       /\ ( /\ peer.pc = "update_write" /\ peer'.pc = "done"
            /\ pc = "done"
            /\ peer.module_name # module_name
            /\ ~HoldsUpdate(peer.data, module_name, image_tag) )
          => /\ HoldsUpdate(state_file'.doc, peer.module_name,
                            peer.image_tag)
             /\ ~HoldsUpdate(state_file'.doc, module_name, image_tag)]_vars

\* Both processes have updated different modules and one update is lost.
WitnessLostUpdate ==
    /\ pc = "done"
    /\ peer.pc = "done"
    /\ peer.module_name # module_name
    /\ HoldsUpdate(state_file.doc, module_name, image_tag)
    /\ ~HoldsUpdate(state_file.doc, peer.module_name, peer.image_tag)
    /\ HoldsUpdate(peer.data, peer.module_name, peer.image_tag)

\* C7: classify_exit_code returns 1 whenever config_error is set, otherwise
\* 3 when health_ok is false or a counter is positive, otherwise 0, and
\* nothing else, for every combination of its four inputs.
ExitCodeDecisionTable ==
    /\ pc # "classify" => exit_code \in { Some(0), Some(1), Some(3) }
    /\ exit_code # None =>
          exit_code = Some(IF config_error THEN 1
                           ELSE IF ~health_ok \/ io_errors > 0
                                   \/ test_errors > 0 THEN 3
                           ELSE 0)

WitnessConfigErrorWins ==
    /\ exit_code = Some(1)
    /\ config_error
    /\ ~health_ok
    /\ io_errors > 0
    /\ test_errors > 0

\* C8: a run that has ended has written a report exactly if it is not a dry
\* run; a dry run leaves the reports and the state file alone and returns
\* the exit code its outcome gives.
ReportIffNotDryRun ==
    RunEnded =>
        /\ (report_path # None) <=> ~dry_run
        /\ dry_run => reports = EmptyDict /\ state_file \in InitialStateFiles
        /\ pc = "done" =>
              exit_code = Some(ClassifyExitCode(config_error, health_ok,
                                                test_errors, io_errors))

\* One of the two documents could not be used as a configuration.
ConfigUnusable ==
    \/ ~serviceintent.ok
    \/ ~test_matrix.ok
    \/ LacksBaseUrl(serviceintent)
    \/ test_matrix.doc.type # "map"

\* C9: no run raises before the persistence steps: whatever the documents
\* loaded, the health polls and the probes, main reaches the classification
\* and returns an exit code, which is 1 for a config error.
NoErrorCrashesTheRun ==
    /\ pc # "crashed"
    /\ (pc = "done" /\ ConfigUnusable) => exit_code = Some(1)

\* The report shows that something failed.
ReportShowsError(p) ==
    \/ ~p.health_ok
    \/ p.health_error # None
    \/ \E i \in 1..Len(p.results) : p.results[i].status # "pass"

\* C10: the report of a run that ended with a config error, a health
\* timeout, a probe transport error or a probe assertion failure records
\* the error, so it differs from the report of a run in which nothing failed.
EveryErrorIsInTheReport ==
    ( /\ pc = "done"
      /\ report_path # None
      /\ config_error \/ ~health_ok \/ io_errors > 0 \/ test_errors > 0 )
    => ReportShowsError(reports[report_path[1]])

\* The health wait of a run configured with a 4-second timeout and a
\* 2-second interval has returned without any poll answered 200.
FourSecondWaitNeverHealthy ==
    /\ HealthWaitOver
    /\ timeout_seconds = 4
    /\ interval_seconds = 2
    /\ answered_at = None

\* C11 as stated: with timeout 4 and interval 2 and a target that never
\* answers 200, wait_for_healthy performs exactly 2 poll attempts; the run
\* has health_ok = false, no result and exit code 3.
FourSecondWaitPollsTwice ==
    FourSecondWaitNeverHealthy =>
        /\ polls = 2
        /\ ~health_ok
        /\ results = << >>
        /\ pc = "done" => exit_code = Some(3)

\* C11, amended: with timeout 4 and interval 2 and a target that never
\* answers 200, wait_for_healthy performs 2 poll attempts when the first
\* request returns in less than 2 seconds and 1 when it takes 2 seconds or
\* more (a poll starts only while now < deadline, the sleep after a failed
\* poll is 2 seconds); the run has health_ok = false, no result and exit
\* code 3.
FourSecondWaitPollsOnceOrTwice ==
    FourSecondWaitNeverHealthy =>
        /\ polls = Len(answers)
        /\ polls = IF answers[1].secs < 2 THEN 2 ELSE 1
        /\ ~health_ok
        /\ results = << >>
        /\ pc = "done" => exit_code = Some(3)

WitnessFourSecondWaitTwoPolls ==
    /\ FourSecondWaitNeverHealthy
    /\ pc = "done"
    /\ polls = 2
    /\ clock = 4
    /\ exit_code = Some(3)

\* wait_for_healthy returns in this step.
HealthWaitReturns == pc = "health" /\ pc' # "health"

\* C12: the first poll answered 200 ends the health wait: it returns
\* (true, none) when that request completes, without a further poll or
\* sleep and whatever error earlier polls recorded, and only a poll started
\* before the deadline can do so; otherwise the wait returns false with the
\* error of the most recent poll, once the deadline is reached.
FirstHealthyPollWins ==
    /\ [][(pc = "health" /\ polls' = polls + 1
             /\ answers'[polls'].kind = "resp"
             /\ answers'[polls'].status_code = 200) =>
            /\ clock < deadline
            /\ HealthWaitReturns
            /\ health_ok' /\ health_error' = None
            /\ answered_at' = Some(clock')
            /\ clock' = clock + answers'[polls'].secs]_vars
    /\ [][(HealthWaitReturns /\ health_ok') =>
            /\ polls' = polls + 1
            /\ answers'[polls'].kind = "resp"
            /\ answers'[polls'].status_code = 200]_vars
    /\ [][(HealthWaitReturns /\ ~health_ok') =>
            /\ ~(clock < deadline)
            /\ polls' = polls /\ clock' = clock
            /\ answered_at = None
            /\ health_error' =
                  IF polls = 0 THEN None
                  ELSE Some(PollError(answers[polls]))]_vars
    /\ [][(answered_at # None /\ pc' # "start") => polls' = polls]_vars

WitnessHealthyAfterFailedPoll ==
    /\ pc = "done"
    /\ health_ok
    /\ health_error = None
    /\ last_error # None
    /\ polls >= 2
    /\ answered_at = Some(clock)

\* What the target did on the request of the i-th probe of the run.
ProbeAnswer(i) == answers[polls + i]

\* C13: every result is the reference result of its test and request
\* outcome.  A transport failure gives status io_error with http_status
\* and latency_ms null and the error text; a completed response gives pass
\* exactly if its status equals expect_status (200 if unset) and
\* max_latency_ms is unset or latency_ms <= max_latency_ms, else fail, with
\* http_status and latency_ms set and no error field; latency_ms is null
\* exactly for io_error.
ResultIsReference ==
    \A i \in 1..Len(results) :
        LET r == results[i]
            t == tests[i]
            a == ProbeAnswer(i)
            expected == IF "expect_status" \in DOMAIN t THEN t.expect_status
                        ELSE 200
        IN  /\ r.status \in { "pass", "fail", "io_error" }
            /\ (r.latency_ms = None) <=> (r.status = "io_error")
            /\ a.kind = "exc" =>
                  /\ r.status = "io_error"
                  /\ r.http_status = None
                  /\ r.latency_ms = None
                  /\ "error" \in DOMAIN r /\ r.error = a.text
            /\ a.kind = "resp" =>
                  /\ r.status = "pass" <=>
                        /\ a.status_code = expected
                        /\ \/ "max_latency_ms" \notin DOMAIN t
                           \/ a.elapsed_ms <= t.max_latency_ms
                  /\ r.status \in { "pass", "fail" }
                  /\ r.http_status = Some(a.status_code)
                  /\ r.latency_ms = Some(a.elapsed_ms)
                  /\ "error" \notin DOMAIN r

WitnessLatencyAtTheBound ==
    /\ Len(results) = 1
    /\ "max_latency_ms" \in DOMAIN tests[1]
    /\ tests[1].max_latency_ms = 10
    /\ results[1].latency_ms = Some(10)
    /\ results[1].status = "pass"

\* write_report returns in this step.
ReportWritten == pc = "report" /\ report_path' # None

\* C14 as stated: whatever the module names and the start times of the
\* runs, no write_report call writes to the path of a report file that an
\* earlier run has written.
NoReportOverwritten ==
    [][ReportWritten => report_path'[1] \notin DOMAIN reports]_vars

\* C14, amended: every write_report call writes the file named by the
\* module and by the second of the write, with the payload of its own run
\* alone (nothing is merged), and leaves every other report file as it was;
\* the report of an earlier run is overwritten only by a run of the same
\* module that writes within the same second.
ReportWriteTouchesOwnFileOnly ==
    [][ReportWritten =>
          LET path == << module_name, clock >> IN
          /\ report_path' = Some(path)
          /\ DOMAIN reports' = DOMAIN reports \cup { path }
          /\ reports'[path] = [module |-> module_name, health_ok |-> health_ok,
                               health_error |-> health_error,
                               results |-> results]
          /\ \A p \in DOMAIN reports :
                (p[1] # module_name \/ p[2] # clock) =>
                    reports'[p] = reports[p]]_vars

\* Two runs of module A, one second apart, have each their own report.
WitnessOneReportPerRun ==
    /\ runs = 2
    /\ pc = "done"
    /\ prev.ended /\ prev.module_name = "A" /\ ~prev.dry_run
    /\ module_name = "A"
    /\ report_path = Some(<< "A", 1 >>)
    /\ DOMAIN reports = { << "A", 0 >>, << "A", 1 >> }
    /\ reports[<< "A", 0 >>].results # reports[<< "A", 1 >>].results

\* deployment.base_image of the run's service intent.
BaseImage ==
    LET deployment_cfg == Get(serviceintent.doc.val, "deployment",
                              YMap(EmptyDict))
    IN  Get(deployment_cfg.val, "base_image", "unknown")

\* A run without --dry-run has returned exit code 0.
PassingRunEnded == pc = "done" /\ ~dry_run /\ exit_code = Some(0)

\* C15 as stated: a non-dry-run run that ends with exit code 0 leaves the
\* module's entry with base_image joined with QA_TAG whenever QA_TAG is
\* set, and with base_image:latest when it is not set.
EntryJoinsQaTagWheneverSet ==
    PassingRunEnded =>
        /\ module_name \in DOMAIN EntriesOf(state_file)
        /\ EntriesOf(state_file)[module_name].image_tag =
              IF qa_tag # None THEN BaseImage \o ":" \o qa_tag[1]
              ELSE BaseImage \o ":latest"

\* C15, amended: a non-dry-run run that ends with exit code 0 leaves the
\* module's entry with base_image joined with QA_TAG when QA_TAG is set to
\* a non-empty value, and with base_image:latest when it is unset or empty,
\* overwriting the earlier entry; an entry changes in no other way, so it
\* is always the tag of the module's most recent passing non-dry-run run.
EntryIsTagOfLastPassingRun ==
    /\ [](PassingRunEnded =>
            /\ module_name \in DOMAIN EntriesOf(state_file)
            /\ EntriesOf(state_file)[module_name] =
                  [image_tag |->
                      IF qa_tag # None /\ qa_tag[1] # ""
                      THEN BaseImage \o ":" \o qa_tag[1]
                      ELSE BaseImage \o ":latest",
                   updated_at |-> clock])
    /\ [][\A mod \in ModuleNames :
            LET before == EntriesOf(state_file)
                after  == EntriesOf(state_file')
            IN  (mod \in DOMAIN after /\
                   (mod \notin DOMAIN before \/ after[mod] # before[mod])) =>
                    /\ mod = module_name
                    /\ ~dry_run /\ exit_code = Some(0)
                    /\ pc = "update_write" /\ pc' = "done"]_vars

\* A passing run with an empty QA_TAG has replaced the entry that a passing
\* run with QA_TAG = v1 had written for the same module.
WitnessEntryOverwrittenByLaterRun ==
    /\ PassingRunEnded
    /\ runs = 2
    /\ prev.ended /\ prev.pc = "done" /\ ~prev.dry_run
    /\ prev.exit_code = Some(0)
    /\ prev.module_name = module_name
    /\ prev.qa_tag = Some("v1")
    /\ qa_tag = Some("")
    /\ EntriesOf(state_file)[module_name].image_tag = "unknown:latest"

\* The state file does not exist or does not hold parseable JSON.
StateFileUnreadable == state_file.kind \in { "missing", "corrupt" }

CountStatus(s) ==
    Cardinality({ i \in 1..Len(results) : results[i].status = s })

\* C17: io_errors is the number of io_error results and test_errors the
\* number of fail results, no result being counted twice; each test is
\* requested once whatever the outcome of the earlier ones (no retry, no
\* early stop), and a run with a non-zero counter returns exit code 3.
CountersMatchResults ==
    /\ io_errors = CountStatus("io_error")
    /\ test_errors = CountStatus("fail")
    /\ io_errors + test_errors + CountStatus("pass") = Len(results)
    /\ probes = Len(results)
    /\ Len(results) <= Len(tests)
    /\ (io_errors + test_errors > 0 /\
          pc \in { "classify", "report", "update_read", "update_write",
                   "done", "io_failed" }) => Len(results) = Len(tests)
    /\ (io_errors + test_errors > 0 /\ exit_code # None) =>
          exit_code = Some(3)

WitnessBothCounters ==
    /\ pc = "done"
    /\ Len(results) = 2
    /\ results[1].status = "fail"
    /\ results[2].status = "io_error"
    /\ io_errors = 1
    /\ test_errors = 1
    /\ exit_code = Some(3)

\* The run that has ended and the run before it were dry runs of the same
\* configuration (arguments, documents, QA_TAG).
TwoDryRunsOfOneConfiguration ==
    /\ pc \in { "done", "crashed" }
    /\ prev.ended
    /\ prev.dry_run /\ dry_run
    /\ prev.module_name = module_name
    /\ prev.serviceintent = serviceintent
    /\ prev.test_matrix = test_matrix
    /\ prev.qa_tag = qa_tag

\* The target has answered the n-th request of both runs in the same way,
\* for every n up to the number of requests of the shorter run.
TargetAnsweredIdentically ==
    \A i \in 1..Len(answers) :
        i <= Len(prev.answers) => prev.answers[i] = answers[i]

\* C18: two consecutive dry runs of one configuration against a target
\* that answers identically issue the same requests and produce the same
\* results, the same counters and the same exit code; a dry run changes
\* neither the reports nor the state file, so it leaves nothing the next
\* run could read.
DryRunsAreDeterministic ==
    /\ []((TwoDryRunsOfOneConfiguration /\ TargetAnsweredIdentically) =>
            /\ Len(answers) = Len(prev.answers)
            /\ results = prev.results
            /\ test_errors = prev.test_errors
            /\ io_errors = prev.io_errors
            /\ health_ok = prev.health_ok
            /\ exit_code = prev.exit_code
            /\ pc = prev.pc)
    /\ [][dry_run => (state_file' = state_file /\ reports' = reports)]_vars

WitnessTwoIdenticalDryRuns ==
    /\ TwoDryRunsOfOneConfiguration
    /\ runs = 2
    /\ answers = prev.answers
    /\ Len(answers) = 2
    /\ results = prev.results
    /\ Len(results) = 1
    /\ results[1].status = "fail"
    /\ exit_code = Some(3)

\* The process has ended: main() has returned or an exception has ended it.
ProcessEnded == pc \in { "done", "crashed", "io_failed" }

\* C19: every run terminates.  Each failed health poll moves the clock
\* forward, no poll starts once the deadline is reached, so the health wait
\* returns; each test is requested at most once; the run then reaches the
\* classification, which gives it an exit code, and the process ends (a dry
\* run, which has no persistence step, by returning that exit code).
EveryRunTerminates ==
    /\ <>ProcessEnded
    /\ [](pc = "health" => <>(pc # "health" /\ exit_code # None))
    /\ []((pc = "health" /\ dry_run) =>
            <>(pc = "done" /\ exit_code # None))
    /\ [][(pc = "health" /\ pc' = "health") =>
            (polls' = polls + 1 /\ clock < deadline /\ clock' > clock)]_vars
    /\ [](probes <= Len(tests))

\* A run has ended after the deadline stopped the health wait of a dry run.
WitnessDeadlineEndsTheWait ==
    /\ pc = "done"
    /\ dry_run
    /\ ~config_error
    /\ ~health_ok
    /\ polls >= 1
    /\ clock >= deadline
    /\ interval_seconds = 0

\* C20: the phases of a run follow the order health wait, probes,
\* classification, report write, state update.  A probe is requested only
\* after wait_for_healthy has returned true and before the classification;
\* the report is written only after the classification; the state file
\* changes only after the report of the same run is written, so a run whose
\* report write raises ends with the state file as it was.
PhasesInOrder ==
    /\ []((pc = "probe" \/ probes > 0) =>
            (health_ok /\ answered_at # None /\ polls >= 1))
    /\ [][probes' = probes + 1 =>
            (pc = "probe" /\ exit_code = None /\ report_path = None)]_vars
    /\ []((pc = "report" \/ report_path # None) => exit_code # None)
    /\ [][report_path' # report_path =>
            (pc = "report" /\ state_file' = state_file)]_vars
    /\ [][state_file' # state_file =>
            /\ pc = "update_write"
            /\ report_path = Some(<< module_name, clock >>)
            /\ report_path[1] \in DOMAIN reports
            /\ reports[report_path[1]].module = module_name
            /\ reports[report_path[1]].results = results]_vars
    /\ [](pc = "io_failed" =>
            (report_path = None /\ state_file \in InitialStateFiles))

\* The report write of a passing run has failed: the state file is missing
\* as before.
WitnessReportFailureKeepsState ==
    /\ pc = "io_failed"
    /\ exit_code = Some(0)
    /\ ~config_error
    /\ Len(results) = 2
    /\ state_file = MissingFile

====
